---- MODULE Spec2Model ----
(***************************************************************************)
(* Fermat primality test of fermat.py: prime_test, mod_exp, is_carmichael  *)
(* and gcd.                                                                *)
(*                                                                         *)
(* prime_test is a state machine over its program counter, the while loop  *)
(* of is_carmichael included, one step per iteration.  mod_exp and gcd are *)
(* pure functions and appear as operators.  gcd is modelled a second time  *)
(* as a step machine, one step per recursive call, so that its swaps, its  *)
(* modulo by zero and its termination can be observed.                     *)
(*                                                                         *)
(* Arithmetic: np.power and the product with its result are carried out on *)
(* numpy's fixed-width signed integers (int64).  The width is scaled down  *)
(* to IntBits bits so that the wrap-around is within reach of the model;   *)
(* the operand sizes are scaled with it.  np.floor(y/2) and np.sqrt(N) are *)
(* exact on the operands of the model and are modelled by y \div 2 and by  *)
(* the comparison a*a > N.                                                 *)
(***************************************************************************)
EXTENDS Integers, Sequences, FiniteSets, TLC

VARIABLES
    \* prime_test: arguments, position, loop index, witness, return value
    N, k, pc, x, a, result,
    \* is_carmichael: its candidate a, its flag, its return value
    ca, factor_found, carm,
    \* history: witnesses drawn so far, and how many of them fail Fermat's test
    drawn, failed,
    \* one call of mod_exp: arguments, position, return value
    mx, my, mN, mpc, mres,
    \* one call of gcd: arguments of the call, of the current recursive call,
    \* swaps made so far, position, return value
    ga0, gb0, ga, gb, gswaps, gpc, gret

ptVars == <<N, k, pc, x, a, result, ca, factor_found, carm, drawn, failed>>
meVars == <<mx, my, mN, mpc, mres>>
gVars == <<ga0, gb0, ga, gb, gswaps, gpc, gret>>
vars == <<N, k, pc, x, a, result, ca, factor_found, carm, drawn, failed,
          mx, my, mN, mpc, mres,
          ga0, gb0, ga, gb, gswaps, gpc, gret>>

(***************************************************************************)
(* Bounds of the model.                                                    *)
(***************************************************************************)
\* width in bits of the signed integers np.power and the product work on
IntBits == 29
\* prime_test is called with N in -NegN..MaxN or in BigN, k in -NegK..MaxK
NegN == 3
MaxN == 20
NegK == 1
MaxK == 2
\* 561 and 1105 are Carmichael numbers, 1009 is a prime
BigN == {561, 1009, 1105}
\* mod_exp is called with x in 0..MaxX, y in 0..MaxY, N in 1..MaxModulus
MaxX == 6
MaxY == 6
MaxModulus == 7
\* and with the operands of Fermat's test on the numbers of BigN
BigInputs == {<<1104, 3, 1105>>, <<2, 1008, 1009>>, <<1008, 1008, 1009>>,
              <<2, 560, 561>>, <<560, 560, 561>>}
\* gcd is called with a and b in 0..MaxGcdArg
MaxGcdArg == 12

NDomain == ((0 - NegN)..MaxN) \cup BigN

KDomain == (0 - NegK)..MaxK

(***************************************************************************)
(* Mathematical reference definitions.                                     *)
(***************************************************************************)
Divides(d, n) == n % d = 0

IsPrime(n) == n >= 2 /\ \A d \in 2..(n - 1) : ~Divides(d, n)

IsComposite(n) == \E d \in 2..(n - 1) : Divides(d, n)

\* the greatest common divisor of a >= 1 and b >= 0
GCD(m, n) == CHOOSE d \in 1..m :
                 /\ Divides(d, m) /\ Divides(d, n)
                 /\ \A e \in 1..m : Divides(e, m) /\ Divides(e, n) => e <= d

Coprime(m, n) == \A d \in 2..m : ~(Divides(d, m) /\ Divides(d, n))

\* b^e mod n on unbounded integers: b^(2h) = (b^h)^2, b^(2h+1) = b * (b^h)^2;
\* every factor is reduced modulo n first, so that no product exceeds n*n
RECURSIVE PowMod(_, _, _)
PowMod(b, e, n) ==
    IF e = 0 THEN 1 % n
    ELSE LET h == PowMod(b, e \div 2, n)
         IN  IF e % 2 = 0 THEN (h * h) % n ELSE ((b % n) * ((h * h) % n)) % n

IsCarmichaelNumber(n) ==
    /\ n % 2 = 1
    /\ IsComposite(n)
    /\ \A b \in 2..(n - 1) : Coprime(b, n) => PowMod(b, n - 1, n) = 1

CarmichaelNumbers == {n \in NDomain : n > 0 /\ IsCarmichaelNumber(n)}

(***************************************************************************)
(* Fixed-width arithmetic.                                                 *)
(***************************************************************************)
Pow2(n) == 2 ^ n

\* the value a signed IntBits-bit integer holds after storing v
Wrap(v) == ((v + Pow2(IntBits - 1)) % Pow2(IntBits)) - Pow2(IntBits - 1)

Fits(v) == Wrap(v) = v

(***************************************************************************)
(* mod_exp(x, y, N)                                                        *)
(***************************************************************************)
RECURSIVE mod_exp(_, _, _)
mod_exp(bx, by, bN) ==
    IF by = 0 THEN 1
    ELSE LET z == mod_exp(bx, by \div 2, bN)
         IN  IF by % 2 = 0
             THEN Wrap(z * z) % bN
             ELSE Wrap(bx * Wrap(z * z)) % bN

\* TRUE iff some product of the call, or of a call below it, does not fit
RECURSIVE mod_exp_wraps(_, _, _)
mod_exp_wraps(bx, by, bN) ==
    IF by = 0 THEN FALSE
    ELSE LET z == mod_exp(bx, by \div 2, bN)
         IN  \/ mod_exp_wraps(bx, by \div 2, bN)
             \/ ~Fits(z * z)
             \/ (by % 2 # 0 /\ ~Fits(bx * Wrap(z * z)))

(***************************************************************************)
(* gcd(a, b), for b # 0 at every call                                      *)
(***************************************************************************)
RECURSIVE gcd(_, _)
gcd(m, n) ==
    IF m < n THEN gcd(n, m)
    ELSE IF m % n = 0 THEN n
    ELSE gcd(n, m % n)

(***************************************************************************)
(* prime_test(N, k)                                                        *)
(***************************************************************************)
PTIdle ==
    /\ N = 0 /\ k = 0 /\ pc = "idle" /\ x = 0 /\ a = 0 /\ result = "none"
    /\ ca = 0 /\ factor_found = FALSE /\ carm = FALSE
    /\ drawn = 0 /\ failed = 0

MEIdle == mx = 0 /\ my = 0 /\ mN = 1 /\ mpc = "idle" /\ mres = 0

GIdle ==
    /\ ga0 = 0 /\ gb0 = 0 /\ ga = 0 /\ gb = 0 /\ gswaps = 0
    /\ gpc = "idle" /\ gret = 0

InitPT ==
    /\ N \in NDomain
    /\ k \in KDomain
    /\ pc = "start" /\ x = 0 /\ a = 0 /\ result = "none"
    /\ ca = 0 /\ factor_found = FALSE /\ carm = FALSE
    /\ drawn = 0 /\ failed = 0

Init == InitPT /\ MEIdle /\ GIdle

\* prime_test continues after is_carmichael(N) has returned r
CarmReturn(r) ==
    /\ carm' = r
    /\ IF r
       THEN result' = "carmichael" /\ pc' = "done"
       ELSE result' = result /\ pc' = "loop"

\* is_carmichael: if N % 2 == 0: return False
CarmEven ==
    /\ pc = "start"
    /\ N % 2 = 0
    /\ CarmReturn(FALSE)
    /\ UNCHANGED <<N, k, x, a, drawn, failed, ca, factor_found>>
    /\ UNCHANGED <<meVars, gVars>>

\* is_carmichael: s = np.sqrt(N); factor_found = False; a = 2
CarmEnter ==
    /\ pc = "start"
    /\ N % 2 # 0
    /\ ca' = 2
    /\ factor_found' = FALSE
    /\ pc' = "carm"
    /\ UNCHANGED <<N, k, x, a, drawn, failed, carm, result>>
    /\ UNCHANGED <<meVars, gVars>>

\* is_carmichael: the while loop ends, return True
CarmExhausted ==
    /\ pc = "carm"
    /\ ~(ca < N)
    /\ CarmReturn(TRUE)
    /\ UNCHANGED <<N, k, x, a, drawn, failed, ca, factor_found>>
    /\ UNCHANGED <<meVars, gVars>>

\* a > np.sqrt(N), for the integers a >= 2 and N >= 3 of the loop
AboveSqrt(c, n) == c * c > n

\* is_carmichael: if a > s and not factor_found: return False
CarmNoFactor ==
    /\ pc = "carm"
    /\ ca < N
    /\ AboveSqrt(ca, N) /\ ~factor_found
    /\ CarmReturn(FALSE)
    /\ UNCHANGED <<N, k, x, a, drawn, failed, ca, factor_found>>
    /\ UNCHANGED <<meVars, gVars>>

\* is_carmichael: if gcd(a, N) > 1: factor_found = True; a += 1
CarmFactor ==
    /\ pc = "carm"
    /\ ca < N
    /\ ~(AboveSqrt(ca, N) /\ ~factor_found)
    /\ gcd(ca, N) > 1
    /\ factor_found' = TRUE
    /\ ca' = ca + 1
    /\ UNCHANGED <<N, k, pc, x, a, drawn, failed, carm, result>>
    /\ UNCHANGED <<meVars, gVars>>

\* is_carmichael: else: if mod_exp(a, N - 1, N) != 1: return False
CarmFermatFail ==
    /\ pc = "carm"
    /\ ca < N
    /\ ~(AboveSqrt(ca, N) /\ ~factor_found)
    /\ ~(gcd(ca, N) > 1)
    /\ mod_exp(ca, N - 1, N) # 1
    /\ CarmReturn(FALSE)
    /\ UNCHANGED <<N, k, x, a, drawn, failed, ca, factor_found>>
    /\ UNCHANGED <<meVars, gVars>>

\* is_carmichael: the base passes Fermat's test; a += 1
CarmFermatPass ==
    /\ pc = "carm"
    /\ ca < N
    /\ ~(AboveSqrt(ca, N) /\ ~factor_found)
    /\ ~(gcd(ca, N) > 1)
    /\ mod_exp(ca, N - 1, N) = 1
    /\ ca' = ca + 1
    /\ UNCHANGED <<N, k, pc, x, a, drawn, failed, factor_found, carm, result>>
    /\ UNCHANGED <<meVars, gVars>>

\* the Fermat test of prime_test on witness w: mod_exp(a, N-1, N) == 1
PowFails(w, n) == mod_exp(w, n - 1, n) # 1

\* for x in range(0, k): a = np.random.randint(1, N)
Draw ==
    /\ pc = "loop"
    /\ x < k
    /\ N > 1
    /\ \E w \in 1..(N - 1) :
          /\ a' = w
          /\ failed' = IF PowFails(w, N) THEN failed + 1 ELSE failed
    /\ drawn' = drawn + 1
    /\ pc' = "test"
    /\ UNCHANGED <<N, k, x, ca, factor_found, carm, result>>
    /\ UNCHANGED <<meVars, gVars>>

\* np.random.randint(1, N) raises ValueError when N <= 1
DrawError ==
    /\ pc = "loop"
    /\ x < k
    /\ N <= 1
    /\ result' = "ValueError"
    /\ pc' = "done"
    /\ UNCHANGED <<N, k, x, a, drawn, failed, ca, factor_found, carm>>
    /\ UNCHANGED <<meVars, gVars>>

\* if mod_exp(a, N-1, N) == 1 the loop goes on
TestPass ==
    /\ pc = "test"
    /\ ~PowFails(a, N)
    /\ x' = x + 1
    /\ pc' = "loop"
    /\ UNCHANGED <<N, k, a, drawn, failed, ca, factor_found, carm, result>>
    /\ UNCHANGED <<meVars, gVars>>

\* TestFail without the early return: the loop goes on after a failed witness
TestFail_KeepsLooping ==
    /\ pc = "test"
    /\ PowFails(a, N)
    /\ x' = x + 1
    /\ pc' = "loop"
    /\ UNCHANGED <<N, k, a, drawn, failed, ca, factor_found, carm, result>>
    /\ UNCHANGED <<meVars, gVars>>

\* else prime = False; if not prime: return 'composite'
TestFail ==
    /\ pc = "test"
    /\ PowFails(a, N)
    /\ result' = "composite"
    /\ pc' = "done"
    /\ UNCHANGED <<N, k, x, a, drawn, failed, ca, factor_found, carm>>
    /\ UNCHANGED <<meVars, gVars>>

\* the loop is exhausted: return 'prime'
ReturnPrime ==
    /\ pc = "loop"
    /\ ~(x < k)
    /\ result' = "prime"
    /\ pc' = "done"
    /\ UNCHANGED <<N, k, x, a, drawn, failed, ca, factor_found, carm>>
    /\ UNCHANGED <<meVars, gVars>>

Next ==
    \/ CarmEven \/ CarmEnter \/ CarmExhausted \/ CarmNoFactor
    \/ CarmFactor \/ CarmFermatFail \/ CarmFermatPass
    \/ Draw \/ DrawError \/ TestPass \/ TestFail \/ ReturnPrime

Spec == Init /\ [][Next]_vars

(***************************************************************************)
(* One call of mod_exp(x, y, N) on inputs drawn from ModExpInputs.         *)
(***************************************************************************)
ModExpInputs ==
    ((0..MaxX) \X (0..MaxY) \X (1..MaxModulus)) \cup BigInputs

InitModExp ==
    /\ PTIdle /\ GIdle
    /\ \E t \in ModExpInputs : mx = t[1] /\ my = t[2] /\ mN = t[3]
    /\ mpc = "call"
    /\ mres = 0

\* the call returns; the code has no path that raises on a product that
\* does not fit, so "done" is the only outcome
ModExpCall ==
    /\ mpc = "call"
    /\ mres' = mod_exp(mx, my, mN)
    /\ mpc' = "done"
    /\ UNCHANGED <<mx, my, mN>>
    /\ UNCHANGED <<ptVars, gVars>>

NextModExp == ModExpCall

SpecModExp == InitModExp /\ [][NextModExp]_vars

(***************************************************************************)
(* One call of gcd(a, b), one step per (recursive) call.                   *)
(***************************************************************************)
InitGcd ==
    /\ PTIdle /\ MEIdle
    /\ ga0 \in 0..MaxGcdArg
    /\ gb0 \in 0..MaxGcdArg
    /\ ga = ga0 /\ gb = gb0
    /\ gswaps = 0
    /\ gpc = "call"
    /\ gret = 0

\* if a < b: return gcd(b, a)
GcdSwap ==
    /\ gpc = "call"
    /\ ga < gb
    /\ ga' = gb /\ gb' = ga
    /\ gswaps' = gswaps + 1
    /\ UNCHANGED <<ga0, gb0, gpc, gret>>
    /\ UNCHANGED <<ptVars, meVars>>

\* a % b with b == 0 raises ZeroDivisionError
GcdDivZero ==
    /\ gpc = "call"
    /\ ~(ga < gb)
    /\ gb = 0
    /\ gpc' = "ZeroDivisionError"
    /\ UNCHANGED <<ga0, gb0, ga, gb, gswaps, gret>>
    /\ UNCHANGED <<ptVars, meVars>>

\* if a % b == 0: return b
GcdBase ==
    /\ gpc = "call"
    /\ ~(ga < gb)
    /\ gb # 0
    /\ ga % gb = 0
    /\ gret' = gb
    /\ gpc' = "done"
    /\ UNCHANGED <<ga0, gb0, ga, gb, gswaps>>
    /\ UNCHANGED <<ptVars, meVars>>

\* GcdRecurse with the operands of the recursive call exchanged
GcdRecurse_ArgsReversed ==
    /\ gpc = "call"
    /\ ~(ga < gb)
    /\ gb # 0
    /\ ga % gb # 0
    /\ ga' = ga % gb /\ gb' = gb
    /\ UNCHANGED <<ga0, gb0, gswaps, gpc, gret>>
    /\ UNCHANGED <<ptVars, meVars>>

\* return gcd(b, a % b)
GcdRecurse ==
    /\ gpc = "call"
    /\ ~(ga < gb)
    /\ gb # 0
    /\ ga % gb # 0
    /\ ga' = gb /\ gb' = ga % gb
    /\ UNCHANGED <<ga0, gb0, gswaps, gpc, gret>>
    /\ UNCHANGED <<ptVars, meVars>>

NextGcd == GcdSwap \/ GcdDivZero \/ GcdBase \/ GcdRecurse

\* the interpreter runs the call to its end: a step that can be taken is taken
SpecGcd == InitGcd /\ [][NextGcd]_vars /\ WF_vars(NextGcd)

(***************************************************************************)
(* Properties.                                                             *)
(***************************************************************************)
Classifications == {"prime", "composite", "carmichael"}

Primes == {n \in NDomain : IsPrime(n)}

\* prime_test has returned from is_carmichael
CarmDecided == pc \in {"loop", "test", "done"}

\* C1: prime_test(p, k) with p prime and k > 0 returns 'prime', whatever
\* witnesses are drawn; it never ends in 'composite' or 'carmichael'.
C1_PrimeIsPrime ==
    (pc = "done" /\ k > 0 /\ N \in Primes) => result = "prime"

\* C2: prime_test(N, k) on a Carmichael number N returns 'carmichael' for
\* every k, straight after the Carmichael check and before any witness is
\* drawn.
C2_CarmichaelIsCarmichael ==
    (CarmDecided /\ N \in CarmichaelNumbers) =>
        pc = "done" /\ result = "carmichael" /\ drawn = 0

\* C3: a 'composite' verdict is correct: if prime_test(N, k) returns
\* 'composite' then N has a divisor d with 1 < d < N.
C3_CompositeIsComposite ==
    result = "composite" => IsComposite(N)

\* C4: prime_test(N, k) called with N <= 0 or k <= 0 ends in an error and
\* returns no classification.
C4_InvalidArgument ==
    (pc = "done" /\ (N <= 0 \/ k <= 0)) => result \notin Classifications

\* C5: for N > 0, is_carmichael(N) returns True iff N is odd, composite and
\* b^(N-1) mod N = 1 for every b in 2..N-1 coprime to N; it returns False
\* for every prime, every even number and N = 1.
C5_IsCarmichaelExact ==
    (CarmDecided /\ N > 0) => (carm <=> N \in CarmichaelNumbers)

\* C6: for x >= 0, y >= 0 and N >= 2, mod_exp(x, y, N) returns x^y mod N, a
\* value in 0..N-1; so mod_exp(x, 0, N) = 1 and mod_exp(a, p-1, p) = 1 for a
\* prime p and a in 1..p-1.
C6_ModExpExact ==
    (mpc = "done" /\ mN >= 2) =>
        /\ mres = PowMod(mx, my, mN)
        /\ mres \in 0..(mN - 1)
        /\ (my = 0 => mres = 1)
        /\ (IsPrime(mN) /\ mx \in 1..(mN - 1) /\ my = mN - 1 => mres = 1)

\* C7: gcd(a, 0) returns a for every a > 0; the zero operand never reaches a
\* modulo by zero.
C7_GcdZero ==
    (gpc # "call" /\ ga0 > 0 /\ gb0 = 0) => gpc = "done" /\ gret = ga0

\* C8, safety: on a >= 1 and b >= 1 gcd swaps at most once, never takes a
\* modulo by zero, and returns the greatest common divisor, which is also
\* what gcd(b, a) returns.
GcdSafe ==
    (ga0 >= 1 /\ gb0 >= 1) =>
        /\ gswaps <= 1
        /\ gpc # "ZeroDivisionError"
        /\ (gpc = "call" /\ ~(ga < gb) => gb # 0)
        /\ (gpc = "done" => gret = GCD(ga0, gb0) /\ gret = gcd(gb0, ga0))

\* C8: for all a >= 1 and b >= 1, gcd(a, b) terminates, swaps its operands at
\* most once, never evaluates a modulo by zero, and returns the greatest
\* common divisor of a and b, so that gcd(a, b) = gcd(b, a).
C8_GcdContract ==
    /\ []GcdSafe
    /\ ((ga0 >= 1 /\ gb0 >= 1) ~> (gpc = "done"))

\* a call gcd(a, b) with a < b that swapped, recursed and returned a proper
\* common divisor
C8_Witness ==
    /\ gpc = "done"
    /\ ga0 >= 1 /\ gb0 >= 1 /\ ga0 < gb0
    /\ gswaps = 1
    /\ gret > 1 /\ gret < ga0

\* C9: mod_exp never wraps silently: when a product z^2 or x*z^2 does not
\* fit the fixed-width integer, the call still returns x^y mod N or it
\* surfaces a PrecisionLoss error.
C9_NoSilentWrap ==
    (mpc # "call" /\ mod_exp_wraps(mx, my, mN)) =>
        \/ mpc = "PrecisionLoss"
        \/ (mpc = "done" /\ mres = PowMod(mx, my, mN))

====
